---- MODULE Spec2Model ----
(***************************************************************************)
(* Model of gezoo/whispers_algorithm.py: create_graph builds the node      *)
(* collection and the neighbor lists, whispers builds the adjacency matrix *)
(* and runs the randomized label propagation loop.                         *)
(*                                                                         *)
(* Node ids are 0-based as in the source (graph is a function on 0..N-1).  *)
(* Neighbor lists are sequences, so an index into a neighbor list is       *)
(* 1-based here where the source's neighbor_index is 0-based.              *)
(* Distances and thresholds are in tenths (5 stands for 0.5). A float is a  *)
(* fraction <<numerator, denominator>>, a zero denominator standing for    *)
(* inf; every float operation rounds its result to the nearest value with  *)
(* MantissaBits significant bits, ties to even, as IEEE arithmetic does    *)
(* with 53 bits.                                                           *)
(***************************************************************************)
EXTENDS Integers, Sequences, FiniteSets, TLC

\* Bounds of the model.
MaxNodes == 3
MaxIter == 3
MantissaBits == 5
MaxDistance == 20

VARIABLES
    imglist,            \* create_graph's input: per image, the fingerprints found in it
    threshold,          \* create_graph's threshold argument
    graph,              \* the list of nodes, id |-> Node
    pc,                 \* "init" | "graph" | "loop" | "done" | "error" | "routed"
    max_iterations,     \* whispers' argument
    weighted_edges,     \* whispers' argument
    adjacency_matrix,   \* <<i, j>> |-> weight
    num_labels_count,   \* running label count
    past_labels,        \* the count remembered from the previous effective round
    i,                  \* number of values of range(max_iterations) consumed
    effective,          \* number of rounds of this call that reached the label update
    broke,              \* this call left the loop by the break of the convergence check
    drawn,              \* id of the node drawn in the last round (node), -1 before the first draw
    again,              \* this call of whispers is a further one on an already labelled graph
    labels,             \* run_whispers' list of label folders
    folder,             \* run_whispers: id |-> name of the folder the node's image is moved to
    distances,          \* the two distances an edge weight is computed for
    weights             \* the two edge weights computed for them

\* run_whispers' outputs, and the inputs and outputs of the edge weight on its own
routeVars == <<labels, folder>>
weightVars == <<distances, weights>>

vars == <<imglist, threshold, graph, pc, max_iterations, weighted_edges,
          adjacency_matrix, num_labels_count, past_labels, i, effective, broke,
          drawn, again, labels, folder, distances, weights>>

----------------------------------------------------------------------------
\* Inputs

\* The descriptors the model draws from: four directions in descriptor space.
Descriptors == 1..4

\* What compute_fingerprints returns for one image: no fingerprint, or one.
Fingerprints == {<<>>} \cup {<<d>> : d \in Descriptors}

\* Thresholds (tenths): a degenerate one, 0.2, and the three-node scenario's 0.5.
Thresholds == {0, 2, 5}

\* The iteration budgets whispers is called with.
Iterations == {0, 1, MaxIter}

\* Distance (tenths) between two descriptors: symmetric, 0 for equal descriptors.
\* Descriptors 1, 2, 3 are the three-node scenario: d(1,2) = 0.1, d(1,3) = d(2,3) = 0.9.
cosine_distance(d1, d2) ==
    IF d1 = d2 THEN 0
    ELSE IF {d1, d2} = {1, 2} THEN 1
    ELSE IF 4 \in {d1, d2} THEN 4
    ELSE 9

\* descriptor.reshape(512) of a classified node: the one fingerprint.
reshape(descriptor) == descriptor[1]

\* nd.Node(id, neighbors, descriptor, ..., unclassified): the label starts as the id.
Node(id, neighbors, descriptor, unclassified) ==
    [id |-> id, neighbors |-> neighbors, descriptor |-> descriptor,
     label |-> id, unclassified |-> unclassified]

len(g) == Cardinality(DOMAIN g)

----------------------------------------------------------------------------
\* create_graph

\* First loop: one node per image, unclassified unless exactly one fingerprint.
list_of_nodes(images) ==
    [n \in DOMAIN images |->
        IF Len(images[n]) = 1
        THEN Node(n, <<>>, images[n], FALSE)
        ELSE Node(n, <<>>, <<>>, TRUE)]

\* IsEdge with the comparison turned round.
IsEdgeAbove(node1, node2, t) ==
    /\ node1.id # node2.id
    /\ cosine_distance(reshape(node1.descriptor), reshape(node2.descriptor)) > t

\* IsEdge without the test that node1 is not node2.
IsEdgeSelf(node1, node2, t) ==
    cosine_distance(reshape(node1.descriptor), reshape(node2.descriptor)) < t

\* The threshold test of the inner loop.
IsEdge(node1, node2, t) ==
    /\ node1.id # node2.id
    /\ cosine_distance(reshape(node1.descriptor), reshape(node2.descriptor)) < t

\* node1_neighbors without the skip of an unclassified node2, which then passes the test.
RECURSIVE node1_neighbors_noskip(_, _, _, _)
node1_neighbors_noskip(nodes, node1, k, t) ==
    IF k = 0 THEN <<>>
    ELSE LET node2 == nodes[k - 1]
             rest == node1_neighbors_noskip(nodes, node1, k - 1, t)
         IN  IF node1.id # node2.id /\ (node2.unclassified \/ IsEdge(node1, node2, t))
             THEN Append(rest, node2.id)
             ELSE rest

\* Inner loop over node2 = nodes[0], ..., nodes[k-1], in list order.
RECURSIVE node1_neighbors(_, _, _, _)
node1_neighbors(nodes, node1, k, t) ==
    IF k = 0 THEN <<>>
    ELSE LET node2 == nodes[k - 1]
             rest == node1_neighbors(nodes, node1, k - 1, t)
         IN  IF node2.unclassified THEN rest
             ELSE IF IsEdge(node1, node2, t) THEN Append(rest, node2.id)
             ELSE rest

\* The graph create_graph returns for these images and this threshold.
create_graph(images, t) ==
    LET nodes == list_of_nodes(images)
    IN  [n \in DOMAIN nodes |->
            IF nodes[n].unclassified THEN nodes[n]
            ELSE [nodes[n] EXCEPT !.neighbors = node1_neighbors(nodes, nodes[n], len(nodes), t)]]

----------------------------------------------------------------------------
\* whispers: the adjacency matrix

\* Weights as fractions; comparison by cross-multiplication (denominators are >= 0).
WEq(a, b) == a[1] * b[2] = b[1] * a[2]
WLeq(a, b) == a[1] * b[2] <= b[1] * a[2]
WZero == <<0, 1>>
WInf == <<1, 0>>

\* a / b rounded to the nearest integer, ties to even.
NearestEven(a, b) ==
    LET q == a \div b
        r == a % b
    IN  IF 2 * r < b THEN q
        ELSE IF 2 * r > b THEN q + 1
        ELSE IF q % 2 = 0 THEN q ELSE q + 1

\* The float nearest to (a / b) * (up / down), a > 0: a / b is scaled by powers of
\* two into [2^(MantissaBits-1), 2^MantissaBits) and rounded there.
RECURSIVE FloatScaled(_, _, _, _)
FloatScaled(a, b, up, down) ==
    IF a >= (2 ^ MantissaBits) * b THEN FloatScaled(a, 2 * b, 2 * up, down)
    ELSE IF a < (2 ^ (MantissaBits - 1)) * b THEN FloatScaled(2 * a, b, up, 2 * down)
    ELSE <<NearestEven(a, b) * up, down>>

\* The float a real result x is rounded to.
Float(x) ==
    IF x[2] = 0 THEN WInf
    ELSE IF x[1] = 0 THEN WZero
    ELSE FloatScaled(x[1], x[2], 1, 1)

\* Float operations: the exact result, rounded.
FMul(x, y) == Float(<<x[1] * y[1], x[2] * y[2]>>)
FInv(x) == Float(<<x[2], x[1]>>)
FAddOne(x) == IF x[2] = 0 THEN WInf ELSE Float(<<x[1] + x[2], x[2]>>)

\* EdgeWeight without the reciprocal: distance ** 2 + 1.
EdgeWeightNoInverse(distance, weighted) ==
    IF weighted
    THEN LET d == Float(<<distance, 10>>) IN FAddOne(FMul(d, d))
    ELSE <<1, 1>>

\* 1 / (distance ** 2) + 1 if weighted_edges else 1, with distance in tenths.
\* A distance of 0 gives inf: numpy's float division warns and does not raise.
EdgeWeight(distance, weighted) ==
    IF weighted
    THEN LET d == Float(<<distance, 10>>) IN FAddOne(FInv(FMul(d, d)))
    ELSE <<1, 1>>

\* np.zeros((len(graph), len(graph)))
zeros(g) == [p \in (DOMAIN g) \X (DOMAIN g) |-> WZero]

\* WriteEdge with the mirrored entry written as in unweighted mode.
WriteEdgeMirrorOne(adj, g, node, neighbor, weighted) ==
    LET distance == cosine_distance(reshape(node.descriptor), reshape(g[neighbor].descriptor))
        a1 == [adj EXCEPT ![<<node.id, neighbor>>] = EdgeWeight(distance, weighted)]
    IN  [a1 EXCEPT ![<<neighbor, node.id>>] = <<1, 1>>]

\* WriteEdge with the second write on the node's own diagonal entry.
WriteEdgeDiagonal(adj, g, node, neighbor, weighted) ==
    LET distance == cosine_distance(reshape(node.descriptor), reshape(g[neighbor].descriptor))
        a1 == [adj EXCEPT ![<<node.id, neighbor>>] = EdgeWeight(distance, weighted)]
    IN  [a1 EXCEPT ![<<node.id, node.id>>] = EdgeWeight(distance, weighted)]

\* The two writes for one neighbor of one node.
WriteEdge(adj, g, node, neighbor, weighted) ==
    LET distance == cosine_distance(reshape(node.descriptor), reshape(g[neighbor].descriptor))
        a1 == [adj EXCEPT ![<<node.id, neighbor>>] = EdgeWeight(distance, weighted)]
    IN  [a1 EXCEPT ![<<neighbor, node.id>>] = EdgeWeight(distance, weighted)]

\* for neighbor in node.neighbors, from the k-th on.
RECURSIVE PopulateNeighbors(_, _, _, _, _)
PopulateNeighbors(adj, g, node, k, weighted) ==
    IF k > Len(node.neighbors) THEN adj
    ELSE PopulateNeighbors(WriteEdge(adj, g, node, node.neighbors[k], weighted),
                           g, node, k + 1, weighted)

\* for node in graph, from graph[n] on.
RECURSIVE Populate(_, _, _, _)
Populate(adj, g, n, weighted) ==
    IF n >= len(g) THEN adj
    ELSE IF g[n].unclassified THEN Populate(adj, g, n + 1, weighted)
    ELSE Populate(PopulateNeighbors(adj, g, g[n], 1, weighted), g, n + 1, weighted)

BuildAdjacency(g, weighted) == Populate(zeros(g), g, 0, weighted)

----------------------------------------------------------------------------
\* whispers: one round of the loop

\* max_dupl_indices without the comparison with max_freq: every index is kept.
max_dupl_indices_all(adj, node) == 1..Len(node.neighbors)

\* The indices into node.neighbors whose weight is the maximum (max_dupl_indices).
max_dupl_indices(adj, node) ==
    LET freq(k) == adj[<<node.id, node.neighbors[k]>>]
        idx == 1..Len(node.neighbors)
    IN  {k \in idx : \A m \in idx : WLeq(freq(m), freq(k))}

\* NewLabel taking the index into the neighbor list (0-based in the source) as the label.
NewLabelIndex(g, node, max_freq_index) == max_freq_index - 1

\* NewLabel copying the chosen neighbor's id instead of its current label.
NewLabelId(g, node, max_freq_index) == g[node.neighbors[max_freq_index]].id

\* NewLabel indexing the graph, not the neighbor list, with max_freq_index.
NewLabelByIndex(g, node, max_freq_index) == g[max_freq_index - 1].label

\* graph[node.neighbors[int(max_freq_index)]].label
NewLabel(g, node, max_freq_index) == g[node.neighbors[max_freq_index]].label

\* The collection is converged: the update of lines 131-168 would leave every node's
\* label as it is, whichever node is drawn and whichever tie is chosen.
NoChangePossible(g, adj) ==
    \A n \in DOMAIN g : (~g[n].unclassified /\ Len(g[n].neighbors) # 0) =>
        \A k \in max_dupl_indices(adj, g[n]) : g[g[n].neighbors[k]].label = g[n].label

\* UpdateLabel relabelling every node that holds the drawn node's label.
UpdateLabelMerge(g, n, new_label) ==
    [k \in DOMAIN g |-> IF g[k].label = g[n].label
                        THEN [g[k] EXCEPT !.label = new_label] ELSE g[k]]

\* node.label = new_label
UpdateLabel(g, n, new_label) == [g EXCEPT ![n].label = new_label]

\* CountAfter counting up on a change.
CountAfterIncrement(count, new_label, old_label) ==
    IF new_label # old_label THEN count + 1 ELSE count

\* if new_label != node.label: num_labels_count -= 1
CountAfter(count, new_label, old_label) ==
    IF new_label # old_label THEN count - 1 ELSE count

\* LoopRuns with one round too many: range(max_iterations + 1).
LoopRunsInclusive(k, m) == k <= m

\* for i in range(max_iterations): there is a k-th round
LoopRuns(k, m) == k < m

\* ConvergenceSignal that never sees an unchanged count.
ConvergenceSignalStrict(count, past) == count > past

\* ConvergenceSignal with the comparison inverted.
ConvergenceSignalInverted(count, past) == count # past

\* if num_labels_count == past_labels: break
ConvergenceSignal(count, past) == count = past

\* NextPc leaving the loop after any round: break where the source has continue.
NextPcBreak(break) == "done"

\* where the call is after a round: returned (break, or the range is exhausted) or looping
NextPc(break) == IF break \/ ~LoopRuns(i + 1, max_iterations) THEN "done" ELSE "loop"

----------------------------------------------------------------------------
\* run_whispers: the folders

\* CollectLabels without the skip of unclassified nodes.
RECURSIVE CollectLabelsAll(_, _)
CollectLabelsAll(g, k) ==
    IF k = 0 THEN <<>>
    ELSE LET seen == CollectLabelsAll(g, k - 1)
             nd == g[k - 1]
         IN  IF \E j \in 1..Len(seen) : seen[j] = nd.label THEN seen
             ELSE Append(seen, nd.label)

\* The first loop over graph[0], ..., graph[k-1]: the labels of classified nodes, each
\* appended when first seen.
RECURSIVE CollectLabels(_, _)
CollectLabels(g, k) ==
    IF k = 0 THEN <<>>
    ELSE LET seen == CollectLabels(g, k - 1)
             nd == g[k - 1]
         IN  IF nd.unclassified THEN seen
             ELSE IF \E j \in 1..Len(seen) : seen[j] = nd.label THEN seen
             ELSE Append(seen, nd.label)

\* The folder a node's image is renamed into: "Unclassified" or str(node.label).
TargetFolder(nd) == IF nd.unclassified THEN "Unclassified" ELSE ToString(nd.label)

----------------------------------------------------------------------------
Init ==
    /\ imglist \in UNION {[0..(n - 1) -> Fingerprints] : n \in 0..MaxNodes}
    /\ threshold = 0
    /\ graph = <<>>
    /\ pc = "init"
    /\ max_iterations = 0
    /\ weighted_edges = TRUE
    /\ adjacency_matrix = <<>>
    /\ num_labels_count = 0
    /\ past_labels = 0
    /\ i = 0
    /\ effective = 0
    /\ broke = FALSE
    /\ drawn = -1
    /\ again = FALSE
    /\ labels = <<>>
    /\ folder = <<>>
    /\ distances = <<>>
    /\ weights = <<>>

\* graph = create_graph(folder_path, threshold)
CreateGraph ==
    /\ pc = "init"
    /\ \E t \in Thresholds :
        /\ threshold' = t
        /\ graph' = create_graph(imglist, t)
    /\ pc' = "graph"
    /\ UNCHANGED <<imglist, max_iterations, weighted_edges, adjacency_matrix,
                   num_labels_count, past_labels, i, effective, broke, drawn, again>>
    /\ UNCHANGED <<routeVars, weightVars>>

\* What whispers does before the first round: the matrix and the two counts. With
\* m = 0 the loop body never runs and the matrix is returned.
Enter(m, w, further) ==
    /\ max_iterations' = m
    /\ weighted_edges' = w
    /\ adjacency_matrix' = BuildAdjacency(graph, w)
    /\ pc' = IF LoopRuns(0, m) THEN "loop" ELSE "done"
    /\ num_labels_count' = len(graph)
    /\ past_labels' = len(graph)
    /\ i' = 0
    /\ effective' = 0
    /\ broke' = FALSE
    /\ drawn' = -1
    /\ again' = further
    /\ UNCHANGED <<imglist, threshold, graph>>
    /\ UNCHANGED <<routeVars, weightVars>>

\* adj = whispers(graph, max_iterations, weighted_edges) on the graph just built.
WhispersCall ==
    /\ pc = "graph"
    /\ \E m \in Iterations, w \in BOOLEAN : Enter(m, w, FALSE)

\* whispers run again, with the same arguments, on a collection it left converged.
WhispersAgain ==
    /\ pc = "done"
    /\ NoChangePossible(graph, adjacency_matrix)
    /\ Enter(max_iterations, weighted_edges, TRUE)

\* random.choice(graph) on an empty list raises IndexError.
RoundEmpty ==
    /\ pc = "loop"
    /\ LoopRuns(i, max_iterations)
    /\ len(graph) = 0
    /\ pc' = "error"
    /\ UNCHANGED <<imglist, threshold, graph, max_iterations, weighted_edges,
                   adjacency_matrix, num_labels_count, past_labels, i, effective, broke,
                   drawn, again>>
    /\ UNCHANGED <<routeVars, weightVars>>

\* The drawn node is unclassified: continue.
RoundUnclassified ==
    /\ pc = "loop"
    /\ LoopRuns(i, max_iterations)
    /\ \E n \in DOMAIN graph : graph[n].unclassified /\ drawn' = n
    /\ i' = i + 1
    /\ pc' = NextPc(FALSE)
    /\ UNCHANGED <<imglist, threshold, graph, max_iterations, weighted_edges,
                   adjacency_matrix, num_labels_count, past_labels, effective, broke, again>>
    /\ UNCHANGED <<routeVars, weightVars>>

\* The drawn node is classified and has no neighbors: nothing happens.
RoundNoNeighbors ==
    /\ pc = "loop"
    /\ LoopRuns(i, max_iterations)
    /\ \E n \in DOMAIN graph :
        /\ ~graph[n].unclassified
        /\ Len(graph[n].neighbors) = 0
        /\ drawn' = n
    /\ i' = i + 1
    /\ pc' = NextPc(FALSE)
    /\ UNCHANGED <<imglist, threshold, graph, max_iterations, weighted_edges,
                   adjacency_matrix, num_labels_count, past_labels, effective, broke, again>>
    /\ UNCHANGED <<routeVars, weightVars>>

\* The drawn node is classified and has neighbors: label update and convergence check.
RoundUpdate ==
    /\ pc = "loop"
    /\ LoopRuns(i, max_iterations)
    /\ \E n \in DOMAIN graph :
        /\ ~graph[n].unclassified
        /\ Len(graph[n].neighbors) # 0
        /\ drawn' = n
        /\ \E max_freq_index \in max_dupl_indices(adjacency_matrix, graph[n]) :
            LET new_label == NewLabel(graph, graph[n], max_freq_index)
                count == CountAfter(num_labels_count, new_label, graph[n].label)
            IN  /\ graph' = UpdateLabel(graph, n, new_label)
                /\ num_labels_count' = count
                /\ past_labels' = count
                /\ broke' = ConvergenceSignal(count, past_labels)
                /\ pc' = NextPc(ConvergenceSignal(count, past_labels))
    /\ i' = i + 1
    /\ effective' = effective + 1
    /\ UNCHANGED <<imglist, threshold, max_iterations, weighted_edges,
                   adjacency_matrix, again>>
    /\ UNCHANGED <<routeVars, weightVars>>

\* run_whispers after whispers returned: the label folders in first-seen order, then
\* every image moved to "Unclassified" or to the folder named after its node's label.
Route ==
    /\ pc = "done"
    /\ ~again
    /\ labels' = CollectLabels(graph, len(graph))
    /\ folder' = [n \in DOMAIN graph |-> TargetFolder(graph[n])]
    /\ pc' = "routed"
    /\ UNCHANGED <<imglist, threshold, graph, max_iterations, weighted_edges,
                   adjacency_matrix, num_labels_count, past_labels, i, effective, broke,
                   drawn, again>>
    /\ UNCHANGED weightVars

Next == CreateGraph \/ WhispersCall \/ WhispersAgain \/ RoundEmpty \/ RoundUnclassified
            \/ RoundNoNeighbors \/ RoundUpdate \/ Route

Spec == Init /\ [][Next]_vars

----------------------------------------------------------------------------
\* The edge weight on its own: two positive distances, and the weights whispers
\* writes for them in one mode.

WeightInit ==
    /\ distances \in (1..MaxDistance) \X (1..MaxDistance)
    /\ weights = <<>>
    /\ pc = "weigh"
    /\ imglist = <<>>
    /\ threshold = 0
    /\ graph = <<>>
    /\ max_iterations = 0
    /\ weighted_edges = TRUE
    /\ adjacency_matrix = <<>>
    /\ num_labels_count = 0
    /\ past_labels = 0
    /\ i = 0
    /\ effective = 0
    /\ broke = FALSE
    /\ drawn = -1
    /\ again = FALSE
    /\ labels = <<>>
    /\ folder = <<>>

Weigh ==
    /\ pc = "weigh"
    /\ \E w \in BOOLEAN :
        /\ weighted_edges' = w
        /\ weights' = <<EdgeWeight(distances[1], w), EdgeWeight(distances[2], w)>>
    /\ pc' = "weighed"
    /\ UNCHANGED <<imglist, threshold, graph, max_iterations, adjacency_matrix,
                   num_labels_count, past_labels, i, effective, broke, drawn, again,
                   labels, folder, distances>>

WeightNext == Weigh

WeightSpec == WeightInit /\ [][WeightNext]_vars

----------------------------------------------------------------------------
\* Vocabulary of the properties

Built == pc # "init"
Entered == pc \in {"loop", "done", "error"}
Stopped == pc \in {"done", "error"}
Classified == {n \in DOMAIN graph : ~graph[n].unclassified}
Unclassified == {n \in DOMAIN graph : graph[n].unclassified}
Elems(seq) == {seq[k] : k \in 1..Len(seq)}
HasNeighbors(n) == n \in Classified /\ Len(graph[n].neighbors) # 0

\* No label change is possible: every maximal-weight neighbor of every classified
\* node with neighbors already holds the node's own label.
Converged ==
    \A n \in DOMAIN graph : HasNeighbors(n) =>
        \A k \in max_dupl_indices(adjacency_matrix, graph[n]) :
            graph[graph[n].neighbors[k]].label = graph[n].label

\* All classified nodes have the same descriptor and the threshold is positive.
UniformClique ==
    /\ threshold > 0
    /\ \A n, k \in Classified : graph[n].descriptor = graph[k].descriptor

\* The three-node scenario: distances 0.1, 0.9, 0.9 and threshold 0.5.
Scenario ==
    /\ Built
    /\ imglist = [n \in 0..2 |-> <<n + 1>>]
    /\ threshold = 5

\* The matrix read off the neighbor lists: an entry per listed pair, zero elsewhere.
AdjFromNeighbors ==
    [p \in (DOMAIN graph) \X (DOMAIN graph) |->
        IF p[2] \in Elems(graph[p[1]].neighbors) \/ p[1] \in Elems(graph[p[2]].neighbors)
        THEN EdgeWeight(cosine_distance(reshape(graph[p[1]].descriptor),
                                        reshape(graph[p[2]].descriptor)), weighted_edges)
        ELSE WZero]

----------------------------------------------------------------------------
\* C1: the label of every classified node is the id of some classified node, in
\* every state from create_graph on, whatever nodes are drawn and ties broken.
LabelRange ==
    Built => \A n \in Classified : \E k \in Classified : graph[n].label = graph[k].id

\* A label has been propagated in a collection that also holds an unclassified node.
LabelRangeWitness ==
    /\ Entered
    /\ Unclassified # {}
    /\ \E n \in Classified : graph[n].label # graph[n].id

\* C2: an unclassified node has no neighbors, is in no classified node's neighbor
\* list, and keeps its own id as label in every state.
UnclassifiedIsolation ==
    Built => \A u \in Unclassified :
        /\ graph[u].neighbors = <<>>
        /\ \A n \in Classified : u \notin Elems(graph[n].neighbors)
        /\ graph[u].label = graph[u].id

\* Every classified node has neighbors, so the skipped round drew an unclassified
\* node; labels of classified nodes have changed meanwhile.
UnclassifiedIsolationWitness ==
    /\ Entered
    /\ Unclassified # {}
    /\ Classified # {}
    /\ \A n \in Classified : HasNeighbors(n)
    /\ i > effective
    /\ effective >= 1

\* C3: whispers on an empty collection never raises, and returns the empty matrix.
EmptyCollectionNoOp ==
    (Entered /\ len(graph) = 0) =>
        /\ pc # "error"
        /\ pc = "done" => adjacency_matrix = zeros(graph)

\* C4: in the uniform-clique scenario a run that stops on the convergence signal
\* leaves all classified nodes with one shared label.
UniformCliqueSingleLabel ==
    (UniformClique /\ pc = "done" /\ broke) =>
        \A n, k \in Classified : graph[n].label = graph[k].label

\* C5 as stated: on a converged collection the first round, whichever node it
\* draws, ends the loop.
ConvergedStopsInOneRound ==
    [][(pc = "loop" /\ Converged /\ i = 0 /\ i' = 1) => pc' = "done"]_vars

\* C5 amended: on a converged collection a round that draws a classified node with
\* neighbors changes no label and ends the loop by the convergence signal. Labels
\* change in such rounds only, so a call on a converged collection ends within its
\* first such round; a round that draws an unclassified or neighborless node
\* does not end it.
ConvergedStopsInOneEffectiveRound ==
    [][(pc = "loop" /\ Converged /\ effective' = effective + 1)
        => (pc' = "done" /\ broke' /\ graph' = graph)]_vars

\* A call on a collection converged to propagated labels: rounds were skipped, then
\* the first effective round stopped the loop with budget left and no label changed.
ConvergedWitness ==
    /\ pc = "done"
    /\ broke
    /\ Converged
    /\ \E n \in Classified : graph[n].label # graph[n].id
    /\ num_labels_count = len(graph)
    /\ effective = 1
    /\ i = 2
    /\ i < max_iterations

\* C6: in the three-node scenario the neighbor lists are (1), (0), (); node 2 keeps
\* label 2; a call makes at most 2 effective updates; after an effective update
\* nodes 0 and 1 share a label, which is 0 or 1.
ThreeNodeScenario ==
    Scenario =>
        /\ graph[0].neighbors = <<1>>
        /\ graph[1].neighbors = <<0>>
        /\ graph[2].neighbors = <<>>
        /\ graph[2].label = 2
        /\ effective <= 2
        /\ effective >= 1 => (graph[0].label = graph[1].label /\ graph[0].label \in {0, 1})

\* The scenario's first call after its second effective update.
ThreeNodeWitness ==
    /\ Scenario
    /\ pc = "done"
    /\ effective = 2
    /\ num_labels_count = 2
    /\ graph[0].label = graph[1].label

\* C7: the loop runs at most max_iterations rounds and stops with budget left only
\* in a round where the convergence signal fired.
StopsOnBudgetOrSignal ==
    /\ i <= max_iterations
    /\ (Stopped /\ i < max_iterations) => broke

\* C8: with max_iterations = 0 no round runs, the matrix returned is the one read
\* off the neighbor lists, and every label is still the node's id.
ZeroBudget ==
    (Entered /\ max_iterations = 0) =>
        /\ pc = "done"
        /\ i = 0
        /\ effective = 0
        /\ adjacency_matrix = AdjFromNeighbors
        /\ \A n \in DOMAIN graph : graph[n].label = graph[n].id

\* A zero-budget call returned on a graph with an edge.
ZeroBudgetWitness ==
    /\ pc = "done"
    /\ max_iterations = 0
    /\ \E n \in DOMAIN graph : HasNeighbors(n)

\* C9: the matrix whispers builds is symmetric, in both modes.
AdjacencySymmetric ==
    Entered => \A n, k \in DOMAIN graph :
        adjacency_matrix[<<n, k>>] = adjacency_matrix[<<k, n>>]

\* A weighted matrix with two different non-zero weights in one row.
AdjacencySymmetricWitness ==
    /\ pc = "done"
    /\ weighted_edges
    /\ \E n, k, m \in DOMAIN graph :
        /\ ~WEq(adjacency_matrix[<<n, k>>], WZero)
        /\ ~WEq(adjacency_matrix[<<n, m>>], WZero)
        /\ ~WEq(adjacency_matrix[<<n, k>>], adjacency_matrix[<<n, m>>])

\* C10: for the same images, the neighbor lists at a lower threshold are contained
\* in those at a higher one.
ThresholdMonotone ==
    pc = "graph" => \A t \in Thresholds, n \in DOMAIN graph :
        /\ t < threshold =>
            Elems(create_graph(imglist, t)[n].neighbors) \subseteq Elems(graph[n].neighbors)
        /\ t > threshold =>
            Elems(graph[n].neighbors) \subseteq Elems(create_graph(imglist, t)[n].neighbors)

\* A node with a neighbor at threshold 0.2 and strictly more neighbors at 0.5.
ThresholdMonotoneWitness ==
    /\ pc = "graph"
    /\ threshold = 5
    /\ \E n \in DOMAIN graph :
        /\ Elems(create_graph(imglist, 2)[n].neighbors) # {}
        /\ Elems(create_graph(imglist, 2)[n].neighbors) # Elems(graph[n].neighbors)

----------------------------------------------------------------------------
\* Vocabulary of the properties of the weights, the rounds and the folders

WLt(a, b) == ~WLeq(b, a)
WOne == <<1, 1>>
Neighbors(n) == Elems(graph[n].neighbors)

\* A step that is a round of the loop which drew a node.
RoundStep == pc = "loop" /\ pc' # "error" /\ (i' # i \/ pc' # pc)

\* The neighbors of n whose edge to n has the largest weight.
MaxNeighbors(n) ==
    {k \in Neighbors(n) : \A m \in Neighbors(n) :
        WLeq(adjacency_matrix[<<n, m>>], adjacency_matrix[<<n, k>>])}

\* The number of distinct labels in the whole collection.
DistinctLabels(g) == Cardinality({g[n].label : n \in DOMAIN g})

\* The nodes reached from S in at most k steps along neighbor lists.
RECURSIVE Grow(_, _)
Grow(S, k) ==
    LET further == S \cup UNION {Neighbors(m) : m \in S}
    IN  IF k = 0 \/ further = S THEN S ELSE Grow(further, k - 1)

\* The connected component of n in the neighbor graph.
Component(n) == Grow({n}, len(graph))

\* The first position at which a classified node holds label l.
FirstPos(l) ==
    CHOOSE n \in Classified :
        /\ graph[n].label = l
        /\ \A k \in Classified : graph[k].label = l => n <= k

----------------------------------------------------------------------------
\* C11 as stated: of two positive distances the smaller gets the strictly larger
\* weighted edge value, and every weighted edge value is above 1.
WeightOrderStrict ==
    (pc = "weighed" /\ weighted_edges) =>
        /\ distances[1] < distances[2] => WLt(weights[2], weights[1])
        /\ WLt(WOne, weights[1]) /\ WLt(WOne, weights[2])

\* C11 amended: the smaller distance gets a weight at least as large (two distances
\* too close for float arithmetic to tell apart get the same weight), and every
\* weighted edge value is above 1.
WeightOrder ==
    (pc = "weighed" /\ weighted_edges) =>
        /\ distances[1] < distances[2] => WLeq(weights[2], weights[1])
        /\ WLt(WOne, weights[1]) /\ WLt(WOne, weights[2])

\* Two distances with strictly ordered weights.
WeightOrderWitness ==
    /\ pc = "weighed"
    /\ weighted_edges
    /\ distances[1] < distances[2]
    /\ WLt(weights[2], weights[1])

\* C12: an effective round breaks exactly when the count equals the remembered one,
\* which is exactly when the drawn node's label did not change; on a change the count
\* drops by one, is remembered, and the round does not stop the loop (the loop goes
\* on unless that round was the last of the budget).
ConvergenceRule ==
    [][(effective' = effective + 1) =>
        LET changed == graph'[drawn'].label # graph[drawn'].label
        IN  /\ broke' <=> (num_labels_count' = past_labels)
            /\ broke' <=> ~changed
            /\ broke' => pc' = "done"
            /\ changed => /\ num_labels_count' = num_labels_count - 1
                          /\ past_labels' = num_labels_count'
                          /\ pc' = "loop" \/ i' = max_iterations]_vars

\* Two rounds changed a label and a third one stopped the loop.
ConvergenceRuleWitness ==
    /\ pc = "done"
    /\ broke
    /\ effective = 3
    /\ num_labels_count = len(graph) - 2
    /\ i < max_iterations \/ i = max_iterations

\* C13: after an effective round the drawn node holds the label that one of its
\* maximal-weight neighbors held before the round.
UpdateStep ==
    [][(effective' = effective + 1) =>
        /\ HasNeighbors(drawn')
        /\ \E k \in MaxNeighbors(drawn') : graph'[drawn'].label = graph[k].label]_vars

\* The drawn node has a neighbor of smaller weight, holding a label that no maximal
\* neighbor holds, and took the label of a maximal one.
UpdateStepWitness ==
    /\ pc = "loop"
    /\ effective >= 1
    /\ HasNeighbors(drawn)
    /\ \E m \in Neighbors(drawn) \ MaxNeighbors(drawn) :
        \A k \in MaxNeighbors(drawn) : graph[m].label # graph[k].label
    /\ graph[drawn].label # graph[drawn].id

\* C14: a round that draws an unclassified node, or a classified node without
\* neighbors, changes no label and neither count, does not stop the loop unless the
\* budget is used up, and uses up one round.
SkippedRound ==
    [][(RoundStep /\ (graph[drawn'].unclassified \/ Len(graph[drawn'].neighbors) = 0)) =>
        /\ graph' = graph
        /\ num_labels_count' = num_labels_count
        /\ past_labels' = past_labels
        /\ ~broke'
        /\ i' = i + 1
        /\ pc' = "done" => i' = max_iterations]_vars

\* After an effective round an unclassified node was drawn and the loop goes on.
SkippedRoundWitness ==
    /\ pc = "loop"
    /\ effective >= 1
    /\ i > effective
    /\ drawn \in Unclassified

\* C15: an entry of the matrix is non-zero exactly for a pair one of which lists the
\* other as neighbor; rows and columns of unclassified nodes and the diagonal are
\* zero; in unweighted mode a non-zero entry is 1.
AdjacencyPopulation ==
    Entered => \A n \in DOMAIN graph :
        LET neighbors == Neighbors(n)
        IN  \A k \in DOMAIN graph :
                /\ adjacency_matrix[<<n, k>>] # WZero
                      <=> (k \in neighbors \/ n \in Neighbors(k))
                /\ (graph[n].unclassified \/ graph[k].unclassified \/ n = k)
                      => adjacency_matrix[<<n, k>>] = WZero
                /\ (~weighted_edges /\ adjacency_matrix[<<n, k>>] # WZero)
                      => adjacency_matrix[<<n, k>>] = WOne

\* An unweighted matrix with an edge, beside an unclassified node.
AdjacencyPopulationWitness ==
    /\ pc = "done"
    /\ ~weighted_edges
    /\ Unclassified # {}
    /\ \E n, k \in DOMAIN graph : adjacency_matrix[<<n, k>>] = WOne

\* C16: after create_graph the neighbor relation of classified nodes is symmetric,
\* no node is its own neighbor, and every neighbor is a classified node of the graph.
NeighborSymmetry ==
    pc = "graph" => \A n \in Classified :
        /\ \A k \in Classified : k \in Neighbors(n) <=> n \in Neighbors(k)
        /\ n \notin Neighbors(n)
        /\ Neighbors(n) \subseteq Classified
        /\ Neighbors(n) \subseteq 0..(len(graph) - 1)

\* Two classified nodes that are neighbors of each other, beside an unclassified node
\* of the same collection.
NeighborSymmetryWitness ==
    /\ pc = "graph"
    /\ len(graph) = 3
    /\ Unclassified # {}
    /\ \E n, k \in Classified : n # k /\ k \in Neighbors(n)

\* C17: a step of the loop changes at most the label of the node it drew: every
\* other node, every id, neighbor list and flag, and the matrix stay as they are.
OnlyLabelsMutated ==
    [][pc = "loop" =>
        /\ adjacency_matrix' = adjacency_matrix
        /\ DOMAIN graph' = DOMAIN graph
        /\ \A k \in DOMAIN graph :
            /\ k # drawn' => graph'[k] = graph[k]
            /\ graph'[k] = [graph[k] EXCEPT !.label = graph'[k].label]]_vars

\* A round changed the label of the node it drew, in a collection of three nodes.
OnlyLabelsMutatedWitness ==
    /\ pc = "loop"
    /\ len(graph) = 3
    /\ effective >= 1
    /\ drawn \in Classified
    /\ graph[drawn].label # graph[drawn].id

\* C18: the list of label folders holds each final label of a classified node once,
\* in order of first occurrence by node position, and nothing else; a classified node
\* goes to the folder of its label, which is in the list, an unclassified node to
\* "Unclassified", and the folders are pairwise different.
OutputRouting ==
    pc = "routed" =>
        /\ Elems(labels) = {graph[n].label : n \in Classified}
        /\ \A a, b \in 1..Len(labels) :
            a < b => (labels[a] # labels[b] /\ FirstPos(labels[a]) < FirstPos(labels[b]))
        /\ \A n \in Classified :
            /\ folder[n] = ToString(graph[n].label)
            /\ \E a \in 1..Len(labels) : folder[n] = ToString(labels[a])
        /\ \A n \in Unclassified : folder[n] = "Unclassified"
        /\ \A a, b \in 1..Len(labels) :
            /\ ToString(labels[a]) # "Unclassified"
            /\ a # b => ToString(labels[a]) # ToString(labels[b])

\* Two classified nodes share one label folder, and an unclassified node, whose own
\* label is no folder, goes to "Unclassified".
OutputRoutingWitness ==
    /\ pc = "routed"
    /\ Len(labels) = 1
    /\ Cardinality(Classified) = 2
    /\ \E n \in Classified : graph[n].label # graph[n].id
    /\ \E n \in Unclassified :
        /\ folder[n] = "Unclassified"
        /\ graph[n].label \notin Elems(labels)

\* C19: in a call that started from label = id the count is at most the number of
\* distinct labels of the collection; within a call neither the count nor the number
\* of distinct labels goes up.
CounterLowerBound ==
    [][/\ (Entered' /\ ~again') => num_labels_count' <= DistinctLabels(graph')
       /\ pc = "loop" => /\ num_labels_count' <= num_labels_count
                         /\ DistinctLabels(graph') <= DistinctLabels(graph)]_vars

\* The count has fallen below the number of distinct labels.
CounterLowerBoundWitness ==
    /\ Entered
    /\ ~again
    /\ num_labels_count < DistinctLabels(graph)

\* C20: the label of a classified node is the id of a node of its connected
\* component; nodes of different components never share a label; a classified node
\* without neighbors keeps its id as label.
ComponentLabels ==
    Built => \A n \in Classified :
        LET component == Component(n)
        IN  /\ graph[n].label \in component
            /\ \A k \in Classified :
                k \notin component => graph[n].label # graph[k].label
            /\ graph[n].neighbors = <<>> => graph[n].label = graph[n].id

\* A label has travelled two edges: a node holds the id of a node of its component
\* that is not its neighbor.
ComponentLabelsWitness ==
    /\ Entered
    /\ \E n \in Classified :
        /\ graph[n].label # graph[n].id
        /\ graph[n].label \notin Neighbors(n)
        /\ graph[n].label \in Component(n)

====
